---- MODULE Spec2Model ----
(***************************************************************************)
(* hero-actions: the action factory (createActionForPayloads) and the      *)
(* reducer builder (createReducer), driven by a state container that feeds *)
(* each reducer result back as the next current state.                     *)
(*                                                                         *)
(* JavaScript values are tagged records.  Objects carry a reference `ref`  *)
(* so that "the same object" and "an equal copy" are different values.     *)
(***************************************************************************)
EXTENDS Integers, Sequences, FiniteSets, TLC

VARIABLES cfg, reducers, start, store, lastCall, calls, created, nextRef, steps

vars == <<cfg, reducers, start, store, lastCall, calls, created, nextRef, steps>>

\* Number of operations (creator calls, dispatches) of one run.
MaxSteps == 2

-----------------------------------------------------------------------------
(* JavaScript values *)

Undefined == [t |-> "undefined"]
Null == [t |-> "null"]
NaN == [t |-> "nan"]
Str(s) == [t |-> "string", s |-> s]
Num(n) == [t |-> "number", n |-> n]
Bool(b) == [t |-> "boolean", b |-> b]
Fn(name) == [t |-> "function", name |-> name]
Obj(ref, o) == [t |-> "object", ref |-> ref, o |-> o]
\* Object(primitive): a wrapper object around the primitive
Wrapper(ref, v) == [t |-> "object", ref |-> ref, o |-> <<>>, prim |-> v]

NoFields == [k \in {} |-> Undefined]

\* reference of the n-th object allocated during the run
FreshRef(n) == 100 + n

\* the value without the identities of its objects (what toEqual compares)
RECURSIVE Plain(_)
Plain(v) ==
  IF v.t = "object"
    THEN [t |-> "object", o |-> [k \in DOMAIN v.o |-> Plain(v.o[k])],
          prim |-> IF "prim" \in DOMAIN v THEN v.prim ELSE Undefined]
    ELSE v

\* completion of a call: a returned value or a thrown error, with the
\* handlers that ran
Return(v, invoked) == [kind |-> "return", value |-> v, invoked |-> invoked]
Throw(e, invoked) == [kind |-> "throw", error |-> e, invoked |-> invoked]

\* the characters of the strings that can be spread ({...state})
StringChars(s) ==
  CASE s = "" -> <<>>
    [] s = "[object Undefined]" ->
         <<"[", "o", "b", "j", "e", "c", "t", " ",
           "U", "n", "d", "e", "f", "i", "n", "e", "d", "]">>

\* own enumerable properties copied by {...v}
PrimSpread(v) ==
  IF v.t = "string"
    THEN LET cs == StringChars(v.s)
         IN [k \in {ToString(i - 1) : i \in 1..Len(cs)} |->
               Str(cs[CHOOSE i \in 1..Len(cs) : ToString(i - 1) = k])]
    ELSE NoFields

Spread(v) ==
  IF v.t = "object"
    THEN IF "prim" \in DOMAIN v THEN PrimSpread(v.prim) ELSE v.o
    ELSE PrimSpread(v)

\* {...base, k1: v1, ...}
Assign(base, upd) ==
  [k \in DOMAIN base \cup DOMAIN upd |-> IF k \in DOMAIN upd THEN upd[k] ELSE base[k]]

\* v.k : reading a property of undefined or null throws
CanGet(v) == v.t \notin {"undefined", "null"}
Get(v, k) ==
  IF v.t = "object" /\ k \in DOMAIN v.o THEN v.o[k] ELSE Undefined

\* a + b for the operands that reach it (numbers, NaN, undefined)
Plus(a, b) ==
  CASE a.t = "number" /\ b.t = "number" -> Num(a.n + b.n)
    [] a.t \in {"number", "nan", "undefined"} /\ b.t \in {"nan", "undefined"} -> NaN
    [] a.t \in {"nan", "undefined"} /\ b.t = "number" -> NaN

\* ToPropertyKey(v) for handlers[action.type]
ToPropertyKey(v) ==
  CASE v.t = "string" -> v.s
    [] v.t = "undefined" -> "undefined"
    [] v.t = "null" -> "null"
    [] v.t = "number" -> ToString(v.n)

Truthy(v) ==
  CASE v.t \in {"undefined", "null", "nan"} -> FALSE
    [] v.t = "string" -> v.s # ""
    [] v.t = "number" -> v.n # 0
    [] v.t = "boolean" -> v.b
    [] v.t \in {"object", "function"} -> TRUE

-----------------------------------------------------------------------------
(* Action factory *)

\* the payload mappings declared by the callers
AuthActionsPayloads ==
  [k \in {"auth/LOGIN_REQUEST", "auth/LOGIN_SUCCESS", "auth/LOGIN_FAILURE"} |->
     IF k = "auth/LOGIN_REQUEST" THEN "undefined" ELSE "payload"]

CounterPayloads ==
  [k \in {"INCREMENT", "ADD"} |-> IF k = "INCREMENT" THEN "undefined" ELSE "payload"]

Payloads == AuthActionsPayloads @@ CounterPayloads

PayloadlessIds == {k \in DOMAIN Payloads : Payloads[k] = "undefined"}
PayloadIds == {k \in DOMAIN Payloads : Payloads[k] = "payload"}

\* createSimpleAction(type)()
createSimpleAction(type, ref) == Obj(ref, [type |-> type])

\* createPayloadAction(type)(payload)
createPayloadAction(type, payload, ref) ==
  Obj(ref, [type |-> type, payload |-> payload])

\* variant: the payload test is truthiness (payload ? ... : ...)
createActionForPayloads_truthy(type, payload, ref) ==
  IF Truthy(payload)
    THEN createPayloadAction(type, payload, ref)
    ELSE createSimpleAction(type, ref)

\* variant: the payload key is always written
createActionForPayloads_alwaysPayload(type, payload, ref) ==
  createPayloadAction(type, payload, ref)

\* variant: the type of the action is the argument, not the identifier
createActionForPayloads_swapped(type, payload, ref) ==
  IF payload # Undefined
    THEN createPayloadAction(payload, type, ref)
    ELSE createSimpleAction(payload, ref)

\* variant: the creator builds its action once and returns that object, with
\* the payload written into it, on every call
createActionForPayloads_cached(type, payload, ref) ==
  IF payload # Undefined
    THEN createPayloadAction(type, payload, 99)
    ELSE createSimpleAction(type, 99)

\* variant: the payload test is loose (payload != null), so null counts as missing
createActionForPayloads_nullish(type, payload, ref) ==
  IF payload \notin {Undefined, Null}
    THEN createPayloadAction(type, payload, ref)
    ELSE createSimpleAction(type, ref)

\* variant: the shape follows what the mapping declares for the identifier
createActionForPayloads_byMapping(type, payload, ref) ==
  IF type.s \in PayloadIds
    THEN createPayloadAction(type, payload, ref)
    ELSE createSimpleAction(type, ref)

\* createActionForPayloads()(type)(payload); a missing argument is undefined
createActionForPayloads(type, payload, ref) ==
  IF payload # Undefined
    THEN createPayloadAction(type, payload, ref)
    ELSE createSimpleAction(type, ref)

-----------------------------------------------------------------------------
(* Handlers *)

\* "auth/LOGIN_REQUEST": (state) => ({...state, status: "loading"})
loginRequestHandler(state, action, ref) ==
  Return(Obj(ref, Assign(Spread(state), [status |-> Str("loading")])),
         <<"auth/LOGIN_REQUEST">>)

\* "auth/LOGIN_SUCCESS": (state, action) => ({...state, isAuthenticated: true,
\*   status: "success", userId: action.payload.userId, token: action.payload.token})
loginSuccessHandler(state, action, ref) ==
  LET payload == Get(action, "payload")
  IN IF ~CanGet(payload)
       THEN Throw("TypeError", <<"auth/LOGIN_SUCCESS">>)
       ELSE Return(Obj(ref, Assign(Spread(state),
                                   [isAuthenticated |-> Bool(TRUE),
                                    status |-> Str("success"),
                                    userId |-> Get(payload, "userId"),
                                    token |-> Get(payload, "token")])),
                   <<"auth/LOGIN_SUCCESS">>)

\* "auth/LOGIN_FAILURE": (state, action) => ({...state, status: "failure",
\*   error: action.payload.error})
loginFailureHandler(state, action, ref) ==
  LET payload == Get(action, "payload")
  IN IF ~CanGet(payload)
       THEN Throw("TypeError", <<"auth/LOGIN_FAILURE">>)
       ELSE Return(Obj(ref, Assign(Spread(state),
                                   [status |-> Str("failure"),
                                    error |-> Get(payload, "error")])),
                   <<"auth/LOGIN_FAILURE">>)

\* INCREMENT: (state) => ({ count: state.count + 1 })
incrementHandler(state, action, ref) ==
  IF ~CanGet(state)
    THEN Throw("TypeError", <<"INCREMENT">>)
    ELSE Return(Obj(ref, [count |-> Plus(Get(state, "count"), Num(1))]),
                <<"INCREMENT">>)

\* ADD: (state, action) => ({ count: state.count + action.payload.amount })
addHandler(state, action, ref) ==
  LET payload == Get(action, "payload")
  IN IF ~CanGet(state) \/ ~CanGet(payload)
       THEN Throw("TypeError", <<"ADD">>)
       ELSE Return(Obj(ref, [count |-> Plus(Get(state, "count"),
                                            Get(payload, "amount"))]),
                   <<"ADD">>)

\* a handler that returns its input state unchanged: (state) => state
identityHandler(state, action, ref) == Return(state, <<"identity">>)

\* a handler that returns what it was called with: (state, action) => ({ state,
\* action }); a parameter the caller did not pass reads as undefined
argumentsHandler(state, action, ref) ==
  Return(Obj(ref, [state |-> state, action |-> action]), <<"arguments">>)

\* a handler that returns nothing: (state) => { }
voidHandler(state, action, ref) == Return(Undefined, <<"void">>)

\* Object.prototype.toString called as a plain function (this is undefined)
objectToString(state, action, ref) ==
  Return(Str("[object Undefined]"), <<"Object.prototype.toString">>)

\* Object.prototype.hasOwnProperty called as a plain function: ToObject(undefined)
objectHasOwnProperty(state, action, ref) ==
  Throw("TypeError", <<"Object.prototype.hasOwnProperty">>)

\* Object(state): the object itself, or a new object for a primitive
objectConstructor(state, action, ref) ==
  Return(CASE state.t = "object" -> state
           [] state.t \in {"undefined", "null"} -> Obj(ref, NoFields)
           [] OTHER -> Wrapper(ref, state),
         <<"Object">>)

\* handler(state, action) for a function value
CallFunction(f, state, action, ref) ==
  CASE f.name = "loginRequest" -> loginRequestHandler(state, action, ref)
    [] f.name = "loginSuccess" -> loginSuccessHandler(state, action, ref)
    [] f.name = "loginFailure" -> loginFailureHandler(state, action, ref)
    [] f.name = "increment" -> incrementHandler(state, action, ref)
    [] f.name = "add" -> addHandler(state, action, ref)
    [] f.name = "identity" -> identityHandler(state, action, ref)
    [] f.name = "arguments" -> argumentsHandler(state, action, ref)
    [] f.name = "void" -> voidHandler(state, action, ref)
    [] f.name = "Object.prototype.toString" -> objectToString(state, action, ref)
    [] f.name = "Object.prototype.hasOwnProperty" -> objectHasOwnProperty(state, action, ref)
    [] f.name = "Object" -> objectConstructor(state, action, ref)

\* the handler tables (own properties of the object literal)
authHandlers ==
  ("auth/LOGIN_REQUEST" :> Fn("loginRequest")) @@
  ("auth/LOGIN_SUCCESS" :> Fn("loginSuccess")) @@
  ("auth/LOGIN_FAILURE" :> Fn("loginFailure"))

counterHandlers == ("INCREMENT" :> Fn("increment")) @@ ("ADD" :> Fn("add"))

noopHandlers == [k \in DOMAIN authHandlers |-> Fn("identity")]

\* a table that lacks the entry of the declared "auth/LOGIN_FAILURE"
partialHandlers ==
  ("auth/LOGIN_REQUEST" :> Fn("arguments")) @@
  ("auth/LOGIN_SUCCESS" :> Fn("arguments"))

\* a table with a handler that returns nothing
voidHandlers ==
  ("auth/LOGIN_REQUEST" :> Fn("arguments")) @@
  ("auth/LOGIN_SUCCESS" :> Fn("void"))

\* what an object literal inherits from Object.prototype
ObjectPrototype ==
  ("toString" :> Fn("Object.prototype.toString")) @@
  ("hasOwnProperty" :> Fn("Object.prototype.hasOwnProperty")) @@
  ("constructor" :> Fn("Object")) @@
  ("__proto__" :> Obj(0, NoFields))

-----------------------------------------------------------------------------
(* Reducer builder *)

\* handlers[action.type]: own property, else inherited, else undefined
GetHandler(handlers, key) ==
  IF key \in DOMAIN handlers THEN handlers[key]
  ELSE IF key \in DOMAIN ObjectPrototype THEN ObjectPrototype[key]
  ELSE Undefined

\* handler(state, action): calling a value that is no function throws
Invoke(handler, state, action, ref) ==
  IF handler.t = "function"
    THEN CallFunction(handler, state, action, ref)
    ELSE Throw("TypeError", <<>>)

\* variant: the handler is always given the initial state
createReducer_initialOnly(initialState, handlers, state, action, ref) ==
  LET handler == GetHandler(handlers, ToPropertyKey(Get(action, "type")))
  IN IF Truthy(handler)
       THEN Invoke(handler, initialState, action, ref)
       ELSE Return(IF state = Undefined THEN initialState ELSE state, <<>>)

\* variant: no default for the state parameter
createReducer_noDefault(initialState, handlers, state, action, ref) ==
  LET handler == GetHandler(handlers, ToPropertyKey(Get(action, "type")))
  IN IF Truthy(handler)
       THEN Invoke(handler, state, action, ref)
       ELSE Return(state, <<>>)

\* variant: the handler is called with the state only
createReducer_stateOnly(initialState, handlers, state, action, ref) ==
  LET current == IF state = Undefined THEN initialState ELSE state
      handler == GetHandler(handlers, ToPropertyKey(Get(action, "type")))
  IN IF Truthy(handler)
       THEN Invoke(handler, current, Undefined, ref)
       ELSE Return(current, <<>>)

\* variant: the action is passed only to a handler whose type has a payload
createReducer_payloadRule(initialState, handlers, state, action, ref) ==
  LET current == IF state = Undefined THEN initialState ELSE state
      key == ToPropertyKey(Get(action, "type"))
      handler == GetHandler(handlers, key)
  IN IF Truthy(handler)
       THEN Invoke(handler, current, IF key \in PayloadIds THEN action ELSE Undefined, ref)
       ELSE Return(current, <<>>)

\* variant: the handler is called without the if (handler) test
createReducer_unguarded(initialState, handlers, state, action, ref) ==
  LET current == IF state = Undefined THEN initialState ELSE state
      handler == GetHandler(handlers, ToPropertyKey(Get(action, "type")))
  IN Invoke(handler, current, action, ref)

\* variant: the handler's result is written into the state object, which is
\* returned (Object.assign(state, handler(state, action)))
createReducer_assignsState(initialState, handlers, state, action, ref) ==
  LET current == IF state = Undefined THEN initialState ELSE state
      handler == GetHandler(handlers, ToPropertyKey(Get(action, "type")))
      out == Invoke(handler, current, action, ref)
  IN IF Truthy(handler)
       THEN IF out.kind = "return" /\ out.value.t = "object" /\ current.t = "object"
              THEN Return(Obj(current.ref, Assign(Spread(current), out.value.o)),
                          out.invoked)
              ELSE out
       ELSE Return(current, <<>>)

\* variant: the action is kept in a variable shared by all calls, and a call
\* sees the action of the call before it
createReducer_sharedAction(initialState, handlers, state, action, ref) ==
  LET current == IF state = Undefined THEN initialState ELSE state
      seen == IF lastCall # <<>> THEN lastCall[1].action ELSE action
      handler == GetHandler(handlers, ToPropertyKey(Get(seen, "type")))
  IN IF Truthy(handler)
       THEN Invoke(handler, current, seen, ref)
       ELSE Return(current, <<>>)

\* variant: the initial state stands in for every falsy state (state || initialState)
createReducer_falsyDefault(initialState, handlers, state, action, ref) ==
  LET current == IF Truthy(state) THEN state ELSE initialState
      handler == GetHandler(handlers, ToPropertyKey(Get(action, "type")))
  IN IF Truthy(handler)
       THEN Invoke(handler, current, action, ref)
       ELSE Return(current, <<>>)

\* variant: a handler result of undefined is replaced by the state
\* (handler(state, action) ?? state)
createReducer_defaultsResult(initialState, handlers, state, action, ref) ==
  LET current == IF state = Undefined THEN initialState ELSE state
      handler == GetHandler(handlers, ToPropertyKey(Get(action, "type")))
      out == Invoke(handler, current, action, ref)
  IN IF Truthy(handler)
       THEN IF out.kind = "return" /\ out.value = Undefined
              THEN Return(current, out.invoked)
              ELSE out
       ELSE Return(current, <<>>)

\* variant: the reducer keeps the state it returned last and works on that
createReducer_keepsState(initialState, handlers, state, action, ref) ==
  LET current == IF lastCall # <<>> /\ lastCall[1].out.kind = "return"
                   THEN lastCall[1].out.value
                   ELSE IF state = Undefined THEN initialState ELSE state
      handler == GetHandler(handlers, ToPropertyKey(Get(action, "type")))
  IN IF Truthy(handler)
       THEN Invoke(handler, current, action, ref)
       ELSE Return(current, <<>>)

\* createReducer(initialState, handlers)(state, action)
createReducer(initialState, handlers, state, action, ref) ==
  LET current == IF state = Undefined THEN initialState ELSE state
      handler == GetHandler(handlers, ToPropertyKey(Get(action, "type")))
  IN IF Truthy(handler)
       THEN Invoke(handler, current, action, ref)
       ELSE Return(current, <<>>)

\* combineReducers({auth: authReducer, counter: counterReducer})(state, action):
\* every slice reducer sees the action; the aggregate object is replaced only
\* when some slice changed
combineReducers(slices, state, action, ref) ==
  LET prev == IF state = Undefined THEN Obj(ref + 2, NoFields) ELSE state
      a == createReducer(slices.auth.initialState, slices.auth.handlers.o,
                         Get(prev, "auth"), action, ref)
      c == createReducer(slices.counter.initialState, slices.counter.handlers.o,
                         Get(prev, "counter"), action, ref + 1)
  IN IF a.kind = "throw" THEN Throw(a.error, a.invoked)
     ELSE IF c.kind = "throw" THEN Throw(c.error, a.invoked \o c.invoked)
     ELSE IF a.value = Get(prev, "auth") /\ c.value = Get(prev, "counter")
       THEN Return(prev, a.invoked \o c.invoked)
       ELSE Return(Obj(ref + 2, [auth |-> a.value, counter |-> c.value]),
                   a.invoked \o c.invoked)

-----------------------------------------------------------------------------
(* The callers: initial states, payloads, reducers *)

\* const initialState: AuthState = { isAuthenticated: false, status: "idle" }
authInitialState == Obj(1, [isAuthenticated |-> Bool(FALSE), status |-> Str("idle")])

\* const initialState: CounterState = { count: 0 }
counterInitialState == Obj(2, [count |-> Num(0)])

\* new Error("Invalid credentials")
InvalidCredentials == Obj(3, [message |-> Str("Invalid credentials")])

\* a state of a session that is already logged in
loggedInState ==
  Obj(4, [isAuthenticated |-> Bool(TRUE), status |-> Str("success"),
          userId |-> Str("u0"), token |-> Str("t0")])

\* the values handed to the action creators
PayloadValues ==
  { Obj(5, [userId |-> Str("test_user"), token |-> Str("test_token")]),
    Obj(6, [userId |-> Str("u1"), token |-> Str("t1")]),
    Obj(7, [error |-> InvalidCredentials]),
    Obj(8, [amount |-> Num(5)]),
    Null, Num(0), Bool(FALSE), Str("") }

\* the identifiers the creators are built for
Identifiers == DOMAIN Payloads \cup {"unknown/action"}

\* actions that do not come from a creator of this library
ForeignActions ==
  { Obj(10, [type |-> Str("unknown/action")]),
    Obj(11, [type |-> Str("toString")]),
    Obj(12, [type |-> Str("hasOwnProperty")]),
    Obj(13, [type |-> Str("constructor")]),
    Obj(14, [type |-> Str("__proto__")]),
    Obj(15, [type |-> Undefined]) }

Configs == {"factory", "auth", "noop", "partial", "void", "counter", "root"}

initialStateOf(c) ==
  CASE c \in {"auth", "noop", "partial", "void"} -> authInitialState
    [] c = "counter" -> counterInitialState

handlersOf(c) ==
  CASE c = "auth" -> authHandlers
    [] c = "noop" -> noopHandlers
    [] c = "partial" -> partialHandlers
    [] c = "void" -> voidHandlers
    [] c = "counter" -> counterHandlers

\* variant: the table is copied ({ ...handlers })
createHandlers_copy(handlers) == Obj(handlers.ref + 50, handlers.o)

\* createHandlers()(handlers)
createHandlers(handlers) == handlers

\* the object literal given to createHandlers
authHandlersLiteral == Obj(20, authHandlers)

\* the handler table object handed to createReducer
tableOf(c) ==
  CASE c = "auth" -> createHandlers(authHandlersLiteral)
    [] c = "noop" -> Obj(21, noopHandlers)
    [] c = "partial" -> Obj(23, partialHandlers)
    [] c = "void" -> Obj(24, voidHandlers)
    [] c = "counter" -> Obj(22, counterHandlers)

\* what createReducer(initialState, handlers) closes over
Closure(c) == [initialState |-> initialStateOf(c), handlers |-> tableOf(c)]

rootReducers == [auth |-> Closure("auth"), counter |-> Closure("counter")]

\* the reducers built before the first dispatch
builtReducers(c) ==
  CASE c = "root" -> rootReducers
    [] c = "factory" -> NoFields
    [] OTHER -> (c :> Closure(c))

\* the reducer registered with the state container
reducerOf(c, state, action, ref) ==
  IF c = "root"
    THEN combineReducers(reducers, state, action, ref)
    ELSE createReducer(reducers[c].initialState, reducers[c].handlers.o,
                       state, action, ref)

\* objects one reducer call may allocate
AllocsOf(c) == IF c = "root" THEN 3 ELSE 1

\* the states a state container may start from (undefined: none preloaded)
StartStates(c) ==
  CASE c \in {"auth", "noop"} -> {Undefined, authInitialState, loggedInState, Null}
    [] c \in {"partial", "void"} -> {Undefined, loggedInState}
    [] c = "counter" -> {Undefined, counterInitialState, Null}
    [] c = "root" ->
         {Undefined, Obj(9, [auth |-> loggedInState, counter |-> counterInitialState])}
    [] c = "factory" -> {Undefined}

\* the states and actions of the direct reducer calls
TestStates(c) ==
  IF c = "root" THEN StartStates(c)
  ELSE StartStates(c) \cup {Num(0), Bool(FALSE), Str("")}

TestActions ==
  { Obj(16, [type |-> Str("auth/LOGIN_REQUEST")]),
    Obj(17, [type |-> Str("INCREMENT")]),
    Obj(18, [type |-> Str("unknown/action")]) }

CreatorCall(id, supplied, payload) ==
  [id |-> id, supplied |-> supplied, payload |-> payload]

\* every way a creator is called
CreatorCalls ==
  {CreatorCall(id, FALSE, Undefined) : id \in Identifiers} \cup
  {CreatorCall(id, TRUE, p) : id \in Identifiers, p \in PayloadValues \cup {Undefined}}

\* the creator calls whose action is dispatched to a store
DispatchedCalls ==
  {CreatorCall(id, FALSE, Undefined) : id \in DOMAIN Payloads} \cup
  {c \in CreatorCalls :
     /\ c.supplied
     /\ \/ c.id \in {"auth/LOGIN_SUCCESS", "auth/LOGIN_REQUEST"} /\ c.payload.t = "object"
           /\ "userId" \in DOMAIN c.payload.o
        \/ c.id = "auth/LOGIN_FAILURE" /\ c.payload.t = "object"
           /\ "error" \in DOMAIN c.payload.o
        \/ c.id = "ADD" /\ c.payload.t = "object" /\ "amount" \in DOMAIN c.payload.o
        \/ c.id = "auth/LOGIN_SUCCESS" /\ c.payload = Null}

-----------------------------------------------------------------------------
(* State machine *)

Init ==
  /\ cfg \in Configs
  /\ reducers = builtReducers(cfg)
  /\ start \in StartStates(cfg)
  /\ store = start
  /\ lastCall = <<>>
  /\ calls = <<>>
  /\ created = <<>>
  /\ nextRef = 0
  /\ steps = 0

Created(c, action) ==
  [id |-> c.id, supplied |-> c.supplied, payload |-> c.payload, action |-> action]

\* one reducer call: who called ("store": the state container, "direct": another
\* call site), the arguments, the first reference it may allocate, the outcome
Call(site, state, action, ref, out) ==
  [site |-> site, state |-> state, action |-> action, ref |-> ref, out |-> out]

\* const action = createAction(id)(payload)   (supplied = FALSE: createAction(id)())
CreateAction(c) ==
  /\ cfg = "factory"
  /\ steps < MaxSteps
  /\ created' = Append(created,
                       Created(c, createActionForPayloads(Str(c.id), c.payload,
                                                          FreshRef(nextRef))))
  /\ nextRef' = nextRef + 1
  /\ steps' = steps + 1
  /\ UNCHANGED <<cfg, reducers, start, store, lastCall, calls>>

\* the state container calls reducer(currentState, action) and keeps the result
Reduce(action, ref) ==
  LET out == reducerOf(cfg, store, action, ref)
  IN /\ lastCall' = <<Call("store", store, action, ref, out)>>
     /\ calls' = Append(calls, Call("store", store, action, ref, out))
     /\ store' = IF out.kind = "return" THEN out.value ELSE store
     /\ UNCHANGED reducers

\* store.dispatch(createAction(id)(payload))
Dispatch(c) ==
  /\ cfg # "factory"
  /\ steps < MaxSteps
  /\ LET action == createActionForPayloads(Str(c.id), c.payload, FreshRef(nextRef))
     IN /\ created' = <<Created(c, action)>>
        /\ Reduce(action, FreshRef(nextRef + 1))
  /\ nextRef' = nextRef + 1 + AllocsOf(cfg)
  /\ steps' = steps + 1
  /\ UNCHANGED <<cfg, start>>

\* store.dispatch(action) for an action made elsewhere
DispatchForeign(action) ==
  /\ cfg # "factory"
  /\ steps < MaxSteps
  /\ Reduce(action, FreshRef(nextRef))
  /\ nextRef' = nextRef + AllocsOf(cfg)
  /\ steps' = steps + 1
  /\ UNCHANGED <<cfg, start, created>>

\* const newState = reducer(state, action): a call site other than the store,
\* sharing the reducer with it
CallReducer(state, action) ==
  /\ cfg # "factory"
  /\ steps < MaxSteps
  /\ LET out == reducerOf(cfg, state, action, FreshRef(nextRef))
     IN /\ lastCall' = <<Call("direct", state, action, FreshRef(nextRef), out)>>
        /\ calls' = Append(calls, Call("direct", state, action, FreshRef(nextRef), out))
  /\ nextRef' = nextRef + AllocsOf(cfg)
  /\ steps' = steps + 1
  /\ UNCHANGED <<cfg, reducers, start, store, created>>

Next ==
  \/ \E c \in CreatorCalls : CreateAction(c)
  \/ \E c \in DispatchedCalls : Dispatch(c)
  \/ \E action \in ForeignActions : DispatchForeign(action)
  \/ \E state \in TestStates(cfg), action \in TestActions : CallReducer(state, action)

Spec == Init /\ [][Next]_vars

-----------------------------------------------------------------------------
(* Properties *)

Called == lastCall # <<>>
TheCall == lastCall[1]
HasCreated == created # <<>>
TheCreated == created[Len(created)]
TypeKey(action) == ToPropertyKey(Get(action, "type"))
SingleReducer == cfg \in {"auth", "noop", "partial", "counter"}

\* C1 (direct delegation): a reducer called with a state S and an action whose
\* type has a registered handler H returns exactly H(S, A).
C1_DirectDelegation ==
  (SingleReducer /\ Called /\ TheCall.state # Undefined
     /\ TypeKey(TheCall.action) \in DOMAIN handlersOf(cfg)) =>
      TheCall.out = CallFunction(handlersOf(cfg)[TypeKey(TheCall.action)],
                                 TheCall.state, TheCall.action, TheCall.ref)

C1_Witness ==
  /\ cfg = "auth" /\ Called
  /\ TheCall.state = loggedInState
  /\ TypeKey(TheCall.action) = "auth/LOGIN_FAILURE"
  /\ TheCall.out.kind = "return"
  /\ TheCall.out.value.o.status = Str("failure")
  /\ TheCall.out.value.o.userId = Str("u0")

\* C2 (identity pass-through): a reducer called with a state S and an action
\* whose type is not a key declared in the handler table returns S itself and
\* invokes no handler.
C2_IdentityPassThrough ==
  (SingleReducer /\ Called /\ TheCall.state # Undefined
     /\ TypeKey(TheCall.action) \notin DOMAIN handlersOf(cfg)) =>
      TheCall.out = Return(TheCall.state, <<>>)

\* C3 (absent-state defaulting): calling the reducer with (undefined, A) gives
\* the result of calling it with (S0, A).
C3_AbsentStateDefault ==
  (SingleReducer /\ Called /\ TheCall.state = Undefined) =>
    TheCall.out = createReducer(initialStateOf(cfg), handlersOf(cfg),
                                initialStateOf(cfg), TheCall.action, TheCall.ref)

C3_Witness ==
  /\ cfg = "auth" /\ Called
  /\ TheCall.state = Undefined
  /\ TypeKey(TheCall.action) = "auth/LOGIN_REQUEST"
  /\ TheCall.out.kind = "return"
  /\ TheCall.out.value.o = [isAuthenticated |-> Bool(FALSE), status |-> Str("loading")]

\* C4: the creator of a payloadless identifier, called with no arguments,
\* yields exactly { type: identifier }, with no payload key.
C4_PayloadlessAction ==
  (HasCreated /\ TheCreated.id \in PayloadlessIds /\ ~TheCreated.supplied) =>
    /\ TheCreated.action.t = "object"
    /\ TheCreated.action.o = [type |-> Str(TheCreated.id)]
    /\ DOMAIN TheCreated.action.o = {"type"}

C4_Witness ==
  /\ HasCreated /\ TheCreated.id = "auth/LOGIN_REQUEST" /\ ~TheCreated.supplied
  /\ "payload" \notin DOMAIN TheCreated.action.o

\* C5 as stated: the creator of a payload-bearing identifier, called with any
\* value v, yields exactly { type: identifier, payload: v }.
C5_PayloadAction_AnyValue ==
  (HasCreated /\ TheCreated.id \in PayloadIds /\ TheCreated.supplied) =>
    /\ TheCreated.action.t = "object"
    /\ TheCreated.action.o = [type |-> Str(TheCreated.id), payload |-> TheCreated.payload]

\* C5 amended: the creator of a payload-bearing identifier, called with any
\* value v other than undefined, yields exactly { type: identifier, payload: v }.
C5_PayloadAction ==
  (HasCreated /\ TheCreated.id \in PayloadIds /\ TheCreated.supplied
     /\ TheCreated.payload # Undefined) =>
    /\ TheCreated.action.t = "object"
    /\ TheCreated.action.o = [type |-> Str(TheCreated.id), payload |-> TheCreated.payload]

C5_Witness ==
  /\ HasCreated /\ TheCreated.id = "auth/LOGIN_SUCCESS" /\ TheCreated.supplied
  /\ TheCreated.payload = Null
  /\ TheCreated.action.o.payload = Null

\* C6 (idempotence under no-op handlers): when every handler of the table returns
\* its input state, the state threaded through the reducer stays the starting
\* state after every dispatch of any action.
AllNoop(handlers) == \A k \in DOMAIN handlers : handlers[k] = Fn("identity")

C6_NoopIdempotence ==
  (SingleReducer /\ AllNoop(handlersOf(cfg))) =>
    \/ store = start
    \/ start = Undefined /\ store = initialStateOf(cfg)

\* C7: with a handler table of total handlers (here: handlers that return their
\* state), every reducer call on an action carrying a type field returns a state
\* and throws nothing.
C7_ReducerNeverThrows ==
  (SingleReducer /\ AllNoop(handlersOf(cfg)) /\ Called) => TheCall.out.kind = "return"

\* C8 (login flow): from the initial state, LOGIN_REQUEST gives status "loading";
\* LOGIN_SUCCESS with {userId, token} gives isAuthenticated true, status "success"
\* and that userId and token; LOGIN_FAILURE with {error} gives status "failure"
\* and that error; every other field keeps its initial value.
WellFormed(action, fields) ==
  /\ Get(action, "payload").t = "object"
  /\ DOMAIN Get(action, "payload").o = fields

C8_LoginFlow ==
  (cfg = "auth" /\ Called /\ TheCall.state \in {Undefined, authInitialState}) =>
    LET a == TheCall.action
        p == Get(a, "payload")
        out == TheCall.out
    IN /\ TypeKey(a) = "auth/LOGIN_REQUEST" =>
            /\ out.kind = "return"
            /\ out.value.o = [isAuthenticated |-> Bool(FALSE), status |-> Str("loading")]
       /\ (TypeKey(a) = "auth/LOGIN_SUCCESS" /\ WellFormed(a, {"userId", "token"})) =>
            /\ out.kind = "return"
            /\ out.value.o = [isAuthenticated |-> Bool(TRUE), status |-> Str("success"),
                              userId |-> p.o.userId, token |-> p.o.token]
       /\ (TypeKey(a) = "auth/LOGIN_FAILURE" /\ WellFormed(a, {"error"})) =>
            /\ out.kind = "return"
            /\ out.value.o = [isAuthenticated |-> Bool(FALSE), status |-> Str("failure"),
                              error |-> p.o.error]

C8_Witness ==
  /\ cfg = "auth" /\ Called /\ TheCall.state = authInitialState
  /\ TypeKey(TheCall.action) = "auth/LOGIN_SUCCESS"
  /\ TheCall.out.kind = "return"
  /\ TheCall.out.value.o.userId = Str("u1")
  /\ TheCall.out.value.o.token = Str("t1")

C10_CreatorTotal ==
  HasCreated =>
    /\ TheCreated.action.t = "object"
    /\ "type" \in DOMAIN TheCreated.action.o
    /\ TheCreated.action.o.type = Str(TheCreated.id)

C10_Witness ==
  /\ HasCreated /\ TheCreated.id = "unknown/action" /\ TheCreated.supplied
  /\ TheCreated.payload = Num(0)
  /\ TheCreated.action.o.type = Str("unknown/action")

\* C11: createHandlers()(handlers) returns the very table object it was given,
\* with the same keys and handler functions, and the reducer built from it
\* behaves as the reducer built from the table directly.
C11_CreateHandlersIdentity ==
  /\ createHandlers(authHandlersLiteral) = authHandlersLiteral
  /\ cfg = "auth" =>
       /\ reducers["auth"].handlers = authHandlersLiteral
       /\ Called =>
            TheCall.out = createReducer(authInitialState, authHandlersLiteral.o,
                                        TheCall.state, TheCall.action, TheCall.ref)

C11_Witness ==
  /\ cfg = "auth" /\ Called
  /\ reducers["auth"].handlers.ref = authHandlersLiteral.ref
  /\ DOMAIN reducers["auth"].handlers.o = DOMAIN authHandlers
  /\ TypeKey(TheCall.action) = "auth/LOGIN_REQUEST"
  /\ TheCall.out.kind = "return"
  /\ TheCall.out.invoked = <<"auth/LOGIN_REQUEST">>

\* C12 (determinism): two reducer calls with the same state and the same action
\* return the same result, whatever calls were made before them.
SameResult(o1, o2) ==
  /\ o1.kind = o2.kind
  /\ o1.invoked = o2.invoked
  /\ o1.kind = "return" => Plain(o1.value) = Plain(o2.value)
  /\ o1.kind = "throw" => o1.error = o2.error

SameArguments(c1, c2) ==
  /\ Plain(c1.state) = Plain(c2.state)
  /\ Plain(c1.action) = Plain(c2.action)

IsStoreCall(c) == c.site = "store"
StoreCalls == SelectSeq(calls, IsStoreCall)

RECURSIVE FoldHandled(_, _)
FoldHandled(cs, s) ==
  IF cs = <<>> THEN s
  ELSE LET a == Head(cs).action
           k == TypeKey(a)
           r == IF k \in DOMAIN handlersOf(cfg)
                  THEN CallFunction(handlersOf(cfg)[k], s, a, Head(cs).ref)
                  ELSE Return(s, <<>>)
       IN FoldHandled(Tail(cs), IF r.kind = "return" THEN r.value ELSE s)

\* the fold is defined: no registered handler raised on its action
HandlersReturned ==
  \A i \in DOMAIN calls :
    TypeKey(calls[i].action) \in DOMAIN handlersOf(cfg) => calls[i].out.kind = "return"

C13_StoreTrace ==
  (SingleReducer /\ start = Undefined /\ StoreCalls # <<>> /\ HandlersReturned) =>
    store = FoldHandled(StoreCalls, initialStateOf(cfg))

\* C14 as stated (handler argument rule): a handler that is found is passed the
\* action as second argument if and only if its action type requires a payload;
\* the handler of a payloadless type is invoked with the current state only.
HandlerFound ==
  /\ cfg = "partial" /\ Called
  /\ TypeKey(TheCall.action) \in DOMAIN partialHandlers
  /\ TheCall.out.kind = "return"

CurrentState(call) ==
  IF call.state = Undefined THEN initialStateOf(cfg) ELSE call.state

C14_HandlerArguments_ByPayload ==
  HandlerFound =>
    /\ TheCall.out.value.o.state = CurrentState(TheCall)
    /\ TheCall.out.value.o.action =
         IF TypeKey(TheCall.action) \in PayloadIds THEN TheCall.action ELSE Undefined

\* C14 amended: a handler that is found is passed the current state and the
\* action as second argument, whether or not its action type requires a payload.
C14_HandlerArguments ==
  HandlerFound =>
    /\ TheCall.out.value.o.state = CurrentState(TheCall)
    /\ TheCall.out.value.o.action = TheCall.action

C14_Witness ==
  /\ HandlerFound
  /\ TypeKey(TheCall.action) = "auth/LOGIN_REQUEST"
  /\ TypeKey(TheCall.action) \in PayloadlessIds
  /\ TheCall.state = loggedInState
  /\ TheCall.out.value.o.state = loggedInState
  /\ TheCall.out.value.o.action = TheCall.action
  /\ TheCall.out.invoked = <<"arguments">>

\* C15: the shape of a created action depends only on whether the creator's
\* argument is undefined, never on the mapping: a defined argument yields
\* { type, payload: argument } even for a payloadless identifier, a missing or
\* undefined argument yields { type } with no payload key even for a
\* payload-bearing identifier; neither raises.
C15_ShapeByArgument ==
  \A i \in DOMAIN created :
    LET c == created[i]
    IN /\ c.action.t = "object"
       /\ c.payload # Undefined =>
            c.action.o = [type |-> Str(c.id), payload |-> c.payload]
       /\ c.payload = Undefined =>
            /\ c.action.o = [type |-> Str(c.id)]
            /\ "payload" \notin DOMAIN c.action.o

C15_Witness ==
  /\ cfg = "factory" /\ Len(created) = 2
  /\ created[1].id \in PayloadlessIds /\ created[1].supplied
  /\ created[1].payload = Num(0)
  /\ created[1].action.o.payload = Num(0)
  /\ created[2].id \in PayloadIds /\ created[2].supplied
  /\ created[2].payload = Undefined
  /\ DOMAIN created[2].action.o = {"type"}

\* C16 (incomplete handler table): when the table lacks the entry of an
\* identifier the payload mapping declares, an action of that type is treated
\* exactly like an action of an unrecognized type: the reducer returns the
\* current state unchanged and raises nothing.
MissingIds == DOMAIN AuthActionsPayloads \ DOMAIN partialHandlers

C16_IncompleteTable ==
  (cfg = "partial" /\ Called /\ TypeKey(TheCall.action) \in MissingIds) =>
    /\ TheCall.out = Return(CurrentState(TheCall), <<>>)
    /\ TheCall.out = createReducer(authInitialState, partialHandlers, TheCall.state,
                                   Obj(10, [type |-> Str("unknown/action")]),
                                   TheCall.ref)
    /\ TheCall.site = "store" => store = CurrentState(TheCall)

C16_Witness ==
  /\ cfg = "partial" /\ Called
  /\ TypeKey(TheCall.action) = "auth/LOGIN_FAILURE"
  /\ "auth/LOGIN_FAILURE" \in DOMAIN AuthActionsPayloads
  /\ "auth/LOGIN_FAILURE" \notin DOMAIN reducers["partial"].handlers.o
  /\ Get(Get(TheCall.action, "payload"), "error") = InvalidCredentials
  /\ TheCall.state = loggedInState
  /\ TheCall.out.kind = "return"
  /\ TheCall.out.value = loggedInState
  /\ TheCall.out.invoked = <<>>

\* C17 (the reducer mutates nothing): across any sequence of calls with
\* non-mutating handlers, the handler table, the stored initial state, the state
\* argument and the action argument are unchanged, and the S0 substituted on a
\* later absent-state call is the S0 of the first.
\* every value seen before or after a call
Observed ==
  {start, store} \cup
  {reducers[k].initialState : k \in DOMAIN reducers} \cup
  {reducers[k].handlers : k \in DOMAIN reducers} \cup
  {calls[i].state : i \in DOMAIN calls} \cup
  {calls[i].action : i \in DOMAIN calls} \cup
  {calls[i].out.value : i \in {j \in DOMAIN calls : calls[j].out.kind = "return"}}

\* an object has the same fields wherever it is seen
ObjectsUnchanged ==
  \A x, y \in {v \in Observed : v.t = "object"} : x.ref = y.ref => x = y

C17_NoMutation ==
  /\ reducers = builtReducers(cfg)
  /\ ObjectsUnchanged
  /\ SingleReducer =>
       \A i \in DOMAIN calls :
         calls[i].state = Undefined =>
           calls[i].out = createReducer(initialStateOf(cfg), handlersOf(cfg),
                                        initialStateOf(cfg), calls[i].action,
                                        calls[i].ref)

C17_Witness ==
  /\ cfg = "auth" /\ Len(calls) = 2
  /\ calls[1].state = Undefined /\ calls[2].state = Undefined
  /\ TypeKey(calls[1].action) = "auth/LOGIN_REQUEST"
  /\ calls[1].out.kind = "return"
  /\ calls[1].out.value.o.status = Str("loading")
  /\ TypeKey(calls[2].action) = "unknown/action"
  /\ calls[2].out = Return(authInitialState, <<>>)
  /\ reducers["auth"].initialState.o.status = Str("idle")
  /\ reducers["auth"].handlers = authHandlersLiteral

\* C18 (concurrent use): when several call sites share one handler table and
\* one reducer and their calls interleave in any order, each call returns what
\* it returns when run alone, and no call observes the state or the action of
\* another call.
\* the call made alone, on a reducer built for it
Alone(call) ==
  IF cfg = "root"
    THEN combineReducers(rootReducers, call.state, call.action, call.ref)
    ELSE createReducer(initialStateOf(cfg), handlersOf(cfg),
                       call.state, call.action, call.ref)

InputRefs == {p.ref : p \in {v \in PayloadValues : v.t = "object"}}

C19_FreshAction ==
  /\ \A i, j \in DOMAIN created :
       i # j => created[i].action.ref # created[j].action.ref
  /\ \A i \in DOMAIN created :
       /\ created[i].action.ref \notin InputRefs
       /\ created[i].payload # Undefined =>
            Get(created[i].action, "payload") = created[i].payload

C19_Witness ==
  /\ cfg = "factory" /\ Len(created) = 2
  /\ created[1].id = "auth/LOGIN_SUCCESS" /\ created[2].id = "auth/LOGIN_SUCCESS"
  /\ created[1].payload = created[2].payload
  /\ created[1].payload.t = "object" /\ created[1].payload.ref = 5
  /\ Plain(created[1].action) = Plain(created[2].action)
  /\ created[1].action # created[2].action
  /\ Get(created[2].action, "payload").ref = 5

\* C20: the initial state is substituted only when the state argument is absent
\* or undefined; a present but falsy state (null, 0, false, "") is passed to the
\* handler, or returned on pass-through, as it is.
FalsyStates == {Null, Num(0), Bool(FALSE), Str("")}

C20_FalsyStateKept ==
  SingleReducer =>
    \A i \in DOMAIN calls :
      LET call == calls[i]
          k == TypeKey(call.action)
      IN call.state \in FalsyStates =>
           /\ k \in DOMAIN handlersOf(cfg) =>
                call.out = CallFunction(handlersOf(cfg)[k], call.state,
                                        call.action, call.ref)
           /\ (cfg = "partial" /\ k \in DOMAIN partialHandlers) =>
                call.out.value.o.state = call.state
           /\ k \notin (DOMAIN handlersOf(cfg) \cup DOMAIN ObjectPrototype) =>
                call.out = Return(call.state, <<>>)

C20_Witness ==
  /\ cfg = "partial" /\ Len(calls) = 2
  /\ calls[1].state = Num(0)
  /\ TypeKey(calls[1].action) = "auth/LOGIN_REQUEST"
  /\ calls[1].out.kind = "return"
  /\ calls[1].out.value.o.state = Num(0)
  /\ calls[2].state = Str("")
  /\ TypeKey(calls[2].action) = "unknown/action"
  /\ calls[2].out = Return(Str(""), <<>>)

\* C21: the reducer returns a handler's result without defaulting it, so a
\* handler that returns undefined makes the reducer return undefined; in a state
\* container that feeds results back, the next dispatch runs against S0 exactly
\* when the previous result was undefined, and against the previous result
\* otherwise.
C21_UndefinedResets ==
  cfg = "void" =>
    /\ \A i \in DOMAIN calls :
         TypeKey(calls[i].action) = "auth/LOGIN_SUCCESS" =>
           calls[i].out = Return(Undefined, <<"void">>)
    /\ \A i \in 1..(Len(StoreCalls) - 1) :
         LET prev == StoreCalls[i]
             next == StoreCalls[i + 1]
             k == TypeKey(next.action)
             seen == IF prev.out.value = Undefined
                       THEN authInitialState ELSE prev.out.value
         IN prev.out.kind = "return" =>
              /\ next.state = prev.out.value
              /\ k = "auth/LOGIN_REQUEST" => next.out.value.o.state = seen
              /\ k \notin (DOMAIN voidHandlers \cup DOMAIN ObjectPrototype) =>
                   next.out = Return(seen, <<>>)

C21_Witness ==
  /\ cfg = "void" /\ start = loggedInState /\ Len(StoreCalls) = 2
  /\ TypeKey(StoreCalls[1].action) = "auth/LOGIN_SUCCESS"
  /\ StoreCalls[1].state = loggedInState
  /\ StoreCalls[1].out = Return(Undefined, <<"void">>)
  /\ StoreCalls[2].state = Undefined
  /\ TypeKey(StoreCalls[2].action) = "auth/LOGIN_REQUEST"
  /\ StoreCalls[2].out.value.o.state = authInitialState
  /\ store.o.state = authInitialState

\* C22: a payload that is defined but falsy (null, 0, false, empty string) is
\* kept: the creator returns { type, payload: v } with the payload key present;
\* only undefined produces the bare action.
FalsyPayloads == {Null, Num(0), Bool(FALSE), Str("")}

C22_FalsyPayloadKept ==
  \A i \in DOMAIN created :
    LET c == created[i]
    IN /\ c.payload \in FalsyPayloads =>
            /\ "payload" \in DOMAIN c.action.o
            /\ c.action.o = [type |-> Str(c.id), payload |-> c.payload]
       /\ "payload" \notin DOMAIN c.action.o <=> c.payload = Undefined

C22_Witness ==
  /\ cfg = "factory" /\ Len(created) = 2
  /\ created[1].id = "ADD" /\ created[1].payload = Null
  /\ created[1].action.o = [type |-> Str("ADD"), payload |-> Null]
  /\ created[2].id = "ADD" /\ created[2].payload = Str("")
  /\ created[2].action.o.payload = Str("")
  /\ ~Truthy(created[2].action.o.payload)

\* C23: per reducer call at most one handler runs: the handler registered for
\* the action's type is invoked exactly once when it exists and no handler is
\* invoked otherwise; the choice of handler depends only on the action's type
\* field, not on its payload or the state.
OneReducer == cfg \notin {"factory", "root"}

C23_AtMostOneHandler ==
  OneReducer =>
    /\ \A i \in DOMAIN calls :
         LET call == calls[i]
             k == TypeKey(call.action)
         IN /\ Len(call.out.invoked) <= 1
            /\ k \in DOMAIN handlersOf(cfg) =>
                 call.out.invoked =
                   CallFunction(handlersOf(cfg)[k], CurrentState(call),
                                call.action, call.ref).invoked
            /\ k \notin DOMAIN handlersOf(cfg) => call.out.invoked = <<>>
    /\ \A i, j \in DOMAIN calls :
         TypeKey(calls[i].action) = TypeKey(calls[j].action) =>
           calls[i].out.invoked = calls[j].out.invoked

====
